---- MODULE Spec2Model ----
(***************************************************************************)
(* State-machine model of the video player widget                          *)
(* (src/src/features/player/VideoPlayer.svelte, config.ts).                *)
(*                                                                         *)
(* Scheduling model.  The widget runs on one event loop.  A step of the    *)
(* model is one run-to-completion piece of code:                           *)
(*   - an event handler (pointer, keyboard, seek bar), or the teardown;    *)
(*   - a setTimeout / requestAnimationFrame callback, or the delivery of   *)
(*     a media play/pause event: these are tasks of the loop, so they run  *)
(*     only when no `await tick()` continuation is queued;                 *)
(*   - the continuation of an `await tick()` (a microtask).                *)
(* Handlers may be invoked back to back inside one task (events dispatched *)
(* synchronously by the embedding script), so a handler or the teardown    *)
(* may run while a continuation is queued.  A continuation queued by a     *)
(* timer callback resumes before anything else (drain).                    *)
(*                                                                         *)
(* Media times are integers in units of 1/10000 second; pointer            *)
(* coordinates are integer pixels.  Timer delays are carried by the        *)
(* pending callback; a pending callback fires at some later step.          *)
(***************************************************************************)
EXTENDS Integers, Sequences, FiniteSets, TLC

VARIABLES
    videoEl,               \* TRUE iff the <video> element is bound
    destroyed,             \* TRUE after onDestroy
    paused,                \* videoEl.paused
    mediaTime,             \* videoEl.currentTime
    mediaDuration,         \* videoEl.duration (NonFinite for NaN / Infinity)
    mediaEvents,           \* play / pause events queued by the media element
    mediaCalls,            \* calls made on videoEl by the last step
    rect,                  \* videoEl.getBoundingClientRect()
    pointerCapture,        \* pointer id captured by the video element, or Null
    isPlaying,
    showHelp,
    overlay,
    overlayTimer,
    clickTimer,
    seekRafId,
    lastPointerX,
    wasPlayingBeforeSeeking,
    seekDrag,              \* a pointer that went down on the seek bar is still down
    bookmarks,             \* let bookmarks: Bookmark[], in list order
    tapLog,                \* history: taps, double taps and toggles so far
    isSwiping,
    isPointerDownOnVideo,
    swipeStartX,
    swipeStartY,
    swipeStartTime,
    swipeCurrentX,
    swipeCurrentY,
    swipePointerId,
    swipeTargetEl,
    timeouts,              \* pending setTimeout callbacks
    frames,                \* pending requestAnimationFrame callbacks
    tickPending,           \* number of show...Overlay calls awaiting tick()
    drain                  \* TRUE while a timer task's microtasks must run

mediaVars   == <<paused, mediaTime, mediaDuration, mediaEvents, rect>>
gestureVars == <<lastPointerX, isSwiping, isPointerDownOnVideo, swipeStartX,
                 swipeStartY, swipeStartTime, swipeCurrentX, swipeCurrentY,
                 swipePointerId, swipeTargetEl>>
timerVars   == <<overlayTimer, clickTimer, seekRafId, timeouts, frames,
                 tickPending, drain>>
otherVars   == <<videoEl, destroyed, isPlaying, showHelp,
                 wasPlayingBeforeSeeking, seekDrag, bookmarks, tapLog,
                 pointerCapture>>
vars == <<mediaVars, mediaCalls, gestureVars, timerVars, overlay, otherVars>>

-----------------------------------------------------------------------------
(* Configuration: config.ts PLAYBACK_CONFIG *)

Null == 0

TimeScale == 100 * 100          \* model time units per second

CLICK_DETECTION_WINDOW == 300
OVERLAY_FADE_DURATION == 1000
SEEK_AMOUNT == 5
LEFT_ZONE_RATIO == <<1, 3>>     \* 1 / 3 as numerator, denominator
RIGHT_ZONE_RATIO == <<2, 3>>    \* 2 / 3
SWIPE_DETECTION_THRESHOLD == 10
SWIPE_BASE_SENSITIVITY == 100   \* 0.01 s per pixel, in 1/10000 s
SWIPE_ACCELERATION == 2         \* 0.0002 s per pixel^2, in 1/10000 s

-----------------------------------------------------------------------------
(* Bounds of the model *)

MaxTimerIds == 3        \* setTimeout handles that can be live at once
MaxTicks == 2           \* show...Overlay calls awaiting tick() at once
MaxMediaEvents == 2     \* queued, undelivered play / pause events
MaxBookmarks == 3       \* entries of the bookmark list
MaxPosition == 12       \* seconds beyond which no further forward skip is made
MaxTaps == 5            \* taps of one run
MaxDistance == 200      \* pixels of horizontal distance handed to calculateSwipeOffset

TimerIds == 1 .. MaxTimerIds
FrameIds == 1 .. 2
NonFinite == -1                 \* a duration that is NaN or Infinity

Sec(n) == n * TimeScale

Abs(n) == IF n < 0 THEN -n ELSE n
Sign(n) == IF n > 0 THEN 1 ELSE IF n < 0 THEN -1 ELSE 0
Min2(a, b) == IF a < b THEN a ELSE b
Max2(a, b) == IF a > b THEN a ELSE b
SetMin(S) == CHOOSE m \in S : \A n \in S : m <= n

-----------------------------------------------------------------------------
(* The media element, as the handlers use it *)

Media == [paused |-> paused, time |-> mediaTime, events |-> mediaEvents,
          calls |-> <<>>]

Call(op, arg) == [op |-> op, arg |-> arg]

\* videoEl.play(): clears paused and queues a play event if it was paused
MediaPlay(m) ==
    [m EXCEPT !.paused = FALSE,
              !.events = IF m.paused THEN Append(@, "play") ELSE @,
              !.calls = Append(@, Call("play", 0))]

\* videoEl.pause(): sets paused and queues a pause event if it was playing
MediaPause(m) ==
    [m EXCEPT !.paused = TRUE,
              !.events = IF m.paused THEN @ ELSE Append(@, "pause"),
              !.calls = Append(@, Call("pause", 0))]

\* videoEl.currentTime = t
MediaSeek(m, t) ==
    [m EXCEPT !.time = t, !.calls = Append(@, Call("currentTime", t))]

SetMedia(m) ==
    /\ paused' = m.paused
    /\ mediaTime' = m.time
    /\ mediaEvents' = m.events
    /\ mediaCalls' = m.calls
    /\ UNCHANGED <<mediaDuration, rect>>

NoMediaCall == mediaCalls' = <<>> /\ UNCHANGED mediaVars

\* videoEl.play() / pause() can queue one more event
CanQueue == Len(mediaEvents) < MaxMediaEvents

\* a clamp that forgets the duration
ClampTimeLowerOnly(t) == Max2(0, t)

\* Number.isFinite(videoEl.duration) ? videoEl.duration : Infinity, then
\* Math.min(Math.max(0, t), dur)
ClampTime(t) ==
    IF mediaDuration = NonFinite THEN Max2(0, t)
    ELSE Min2(Max2(0, t), mediaDuration)

-----------------------------------------------------------------------------
(* Timers *)

TimeoutIds(ts) == {t.id : t \in ts}

\* the handles a new setTimeout can return
FreeTimerIds(ts, held) == TimerIds \ (TimeoutIds(ts) \cup held)

\* setTimeout returns a handle that is neither pending nor still held
NewTimerId(ts, held) == SetMin(FreeTimerIds(ts, held))

\* a clearTimeout that cancels nothing
clearTimeoutNoop(ts, h) == ts

clearTimeout(ts, h) == {t \in ts : t.id # h}

setTimeout(ts, h, kind, delay) ==
    ts \cup {[id |-> h, kind |-> kind, delay |-> delay]}

PendingOf(kind) == {t \in timeouts : t.kind = kind}

-----------------------------------------------------------------------------
\* the state the <script> block constructs (lines 9-38), around a media
\* element of duration d at position t0, paused iff p
InitState(d, t0, p, log) ==
    /\ videoEl = FALSE
    /\ destroyed = FALSE
    /\ paused = p
    /\ mediaTime = t0
    /\ mediaDuration = d
    /\ mediaEvents = <<>>
    /\ mediaCalls = <<>>
    /\ rect = [left |-> 10, width |-> 300]
    /\ pointerCapture = Null
    /\ isPlaying = ~p
    /\ showHelp = FALSE
    /\ overlay = [show |-> FALSE, symbol |-> "", side |-> "center",
                  fade |-> FALSE]
    /\ overlayTimer = Null
    /\ clickTimer = Null
    /\ seekRafId = Null
    /\ lastPointerX = 0
    /\ wasPlayingBeforeSeeking = FALSE
    /\ seekDrag = FALSE
    /\ bookmarks = <<>>
    /\ tapLog = log
    /\ isSwiping = FALSE
    /\ isPointerDownOnVideo = FALSE
    /\ swipeStartX = 0
    /\ swipeStartY = 0
    /\ swipeStartTime = 0
    /\ swipeCurrentX = 0
    /\ swipeCurrentY = 0
    /\ swipePointerId = Null
    /\ swipeTargetEl = "none"
    /\ timeouts = {}
    /\ frames = {}
    /\ tickPending = 0
    /\ drain = FALSE

\* no history is kept
NoLog ==
    [on |-> FALSE, taps |-> 0, doubles |-> 0, toggles |-> 0, swipes |-> 0]

\* history of the click arbiter: pointer-ups that ended a tap, those among
\* them that cancelled a pending click timer, and play() / pause() calls made
\* by the click timer's callback
LogTap(log, cancelled) ==
    IF ~log.on THEN log
    ELSE [log EXCEPT !.taps = @ + 1,
                     !.doubles = @ + (IF cancelled THEN 1 ELSE 0)]

LogToggle(log, calls) ==
    IF ~log.on THEN log
    ELSE [log EXCEPT !.toggles = @ + Cardinality(
              {i \in 1 .. Len(calls) : calls[i].op \in {"play", "pause"}})]

\* pointer-moves that entered Swiping and cancelled a pending click timer
LogSwipe(log, cancelled) ==
    IF ~log.on \/ ~cancelled THEN log
    ELSE [log EXCEPT !.swipes = @ + 1]

InitWith(d, t0, p) == InitState(d, t0, p, NoLog)

Init == InitWith(Sec(5), 0, TRUE)

\* bind:this={videoEl}
Mount ==
    /\ ~destroyed /\ ~videoEl
    /\ videoEl' = TRUE
    /\ mediaCalls' = <<>>
    /\ UNCHANGED <<mediaVars, gestureVars, timerVars, overlay, destroyed,
                   isPlaying, showHelp, wasPlayingBeforeSeeking, seekDrag,
                   bookmarks, tapLog,
                   pointerCapture>>

-----------------------------------------------------------------------------
(* Overlay presenter *)

\* a symbol chosen the other way round
PlaybackSymbolSwapped(p) == IF p THEN "▶" ELSE "⏸"

\* videoEl.paused ? '⏸' : '▶'
PlaybackSymbol(p) == IF p THEN "⏸" ELSE "▶"

Digit(d) == SubSeq("0123456789", d + 1, d + 1)

RECURSIVE IntStr(_)
IntStr(n) == IF n < 10 THEN Digit(n) ELSE IntStr(n \div 10) \o Digit(n % 10)

\* offsetSeconds.toFixed(1) as a number of tenths: the nearest tenth, a tie
\* going away from zero
Tenths(offset) == Sign(offset) * ((Abs(offset) * 10 + TimeScale \div 2) \div TimeScale)

\* updateSwipeOverlay: `${sign}${Math.abs(rounded).toFixed(1)}s`
SwipeSymbol(offset) ==
    LET rounded == Tenths(offset)
        sign == IF rounded > 0 THEN "+" ELSE IF rounded < 0 THEN "-" ELSE ""
    IN  sign \o IntStr(Abs(rounded) \div 10) \o "." \o Digit(Abs(rounded) % 10) \o "s"

\* a swipe offset without the quadratic term
calculateSwipeOffsetLinear(distance) ==
    SWIPE_BASE_SENSITIVITY * distance

\* calculateSwipeOffset(distance)
calculateSwipeOffset(distance) ==
    LET absDistance == Abs(distance)
        baseOffset == SWIPE_BASE_SENSITIVITY * absDistance
        acceleratedOffset == SWIPE_ACCELERATION * absDistance * absDistance
    IN  Sign(distance) * (baseOffset + acceleratedOffset)

\* The part of showPlaybackOverlay / showSeekOverlay before `await tick()`:
\* hide, set symbol / side / fade, clearTimeout(overlayTimer) without
\* resetting the handle, and queue the continuation.
ShowDiscrete(symbol, side, ts) ==
    /\ overlay' = [show |-> FALSE, symbol |-> symbol, side |-> side,
                   fade |-> TRUE]
    /\ timeouts' = IF overlayTimer # Null THEN clearTimeout(ts, overlayTimer)
                   ELSE ts
    /\ tickPending' = tickPending + 1
    /\ UNCHANGED overlayTimer

\* showPlaybackOverlay, called with the media state m left by togglePlay
showPlaybackOverlay(m, ts) ==
    IF ~videoEl
    THEN /\ timeouts' = ts
         /\ UNCHANGED <<overlay, tickPending, overlayTimer>>
    ELSE ShowDiscrete(PlaybackSymbol(m.paused), "center", ts)

showSeekOverlay(symbol, side, ts) == ShowDiscrete(symbol, side, ts)

\* the handles a new setTimeout must differ from, and the room left for the
\* queued continuations, in the state a step leaves
Room ==
    Cardinality(FreeTimerIds(timeouts', {clickTimer', overlayTimer'}))
        >= tickPending'

\* The continuation of showPlaybackOverlay / showSeekOverlay after
\* `await tick()`: show, and start the hide timer.
TickResume ==
    /\ tickPending > 0
    /\ LET h == NewTimerId(timeouts, {clickTimer, overlayTimer})
       IN  /\ overlay' = [overlay EXCEPT !.show = TRUE]
           /\ overlayTimer' = h
           /\ timeouts' = setTimeout(timeouts, h, "overlayHide",
                                     OVERLAY_FADE_DURATION)
    /\ tickPending' = tickPending - 1
    /\ drain' = (drain /\ tickPending' > 0)
    /\ NoMediaCall
    /\ UNCHANGED <<gestureVars, otherVars, clickTimer, seekRafId, frames>>

\* the overlay hide timer's callback
OverlayTimerFire ==
    /\ tickPending = 0
    /\ \E t \in PendingOf("overlayHide") :
          /\ timeouts' = timeouts \ {t}
          /\ overlay' = [overlay EXCEPT !.show = FALSE]
          /\ overlayTimer' = Null
    /\ NoMediaCall
    /\ UNCHANGED <<gestureVars, otherVars, clickTimer, seekRafId, frames,
                   tickPending, drain>>

-----------------------------------------------------------------------------
(* Media transport *)

\* a togglePlay without the guard on videoEl
togglePlayUnguarded(m) ==
    IF m.paused THEN MediaPlay(m) ELSE MediaPause(m)

\* a togglePlay that never reaches the media element
togglePlayNoop(m) == m

togglePlay(m) ==
    IF ~videoEl THEN m
    ELSE IF m.paused THEN MediaPlay(m) ELSE MediaPause(m)

\* a seekBy without the clamp to [0, duration]
seekByUnclamped(m, seconds) ==
    IF ~videoEl THEN m ELSE MediaSeek(m, m.time + Sec(seconds))

seekBy(m, seconds) ==
    IF ~videoEl THEN m
    ELSE MediaSeek(m, ClampTime(m.time + Sec(seconds)))

\* the click timer's callback: togglePlay(); showPlaybackOverlay();
\* clickTimer = null
ClickTimerFire ==
    /\ tickPending = 0
    /\ ~videoEl \/ CanQueue
    /\ \E t \in PendingOf("click") :
          LET m == togglePlay(Media)
          IN  /\ SetMedia(m)
              /\ showPlaybackOverlay(m, timeouts \ {t})
    /\ clickTimer' = Null
    /\ drain' = (tickPending' > 0)
    /\ tickPending' <= MaxTicks
    /\ Room
    /\ tapLog' = LogToggle(tapLog, mediaCalls')
    /\ UNCHANGED <<gestureVars, seekRafId, frames, videoEl, destroyed,
                   isPlaying, showHelp, wasPlayingBeforeSeeking, seekDrag,
                   bookmarks, pointerCapture>>

\* onplay={handlePlay} / onpause={handlePause}
MediaEventDeliver ==
    /\ ~destroyed
    /\ tickPending = 0
    /\ mediaEvents # <<>>
    /\ isPlaying' = (Head(mediaEvents) = "play")
    /\ mediaEvents' = Tail(mediaEvents)
    /\ mediaCalls' = <<>>
    /\ UNCHANGED <<paused, mediaTime, mediaDuration, rect, gestureVars,
                   timerVars, overlay, videoEl, destroyed, showHelp,
                   wasPlayingBeforeSeeking, seekDrag, bookmarks, tapLog,
                   pointerCapture>>

-----------------------------------------------------------------------------
(* Gesture disambiguator *)

\* a showSeekingOverlay that keeps the fade flag it finds
showSeekingOverlayKeepFade(o) == [o EXCEPT !.show = TRUE]

\* showSeekingOverlay(): overlay.fade = false; overlay.show = true
showSeekingOverlay(o) == [o EXCEPT !.fade = FALSE, !.show = TRUE]

\* hideSeekingOverlay(): overlay.show = false
hideSeekingOverlay(o) == [o EXCEPT !.show = FALSE]

\* updateSwipeOverlay(offsetSeconds)
updateSwipeOverlay(o, offset) ==
    [o EXCEPT !.symbol = SwipeSymbol(offset), !.side = "center"]

\* the browser releases the capture of a pointer that goes up or is cancelled
ReleaseCapture(pid) ==
    pointerCapture' = IF pointerCapture = pid THEN Null ELSE pointerCapture

\* The video loses the capture of a pointer that is still down (the browser
\* fires lostpointercapture alone): the <video> binds no handler for it
\* (lines 454-466), so no code of the component runs.
LostPointerCapture ==
    /\ ~destroyed /\ ~drain
    /\ pointerCapture # Null
    /\ pointerCapture' = Null
    /\ NoMediaCall
    /\ UNCHANGED <<gestureVars, timerVars, overlay, videoEl, destroyed,
                   isPlaying, showHelp, wasPlayingBeforeSeeking, seekDrag,
                   bookmarks, tapLog>>

\* a pointer-down that drops the pending tap
handleVideoPointerDownDropsTap(clientX, clientY, button, pointerId) ==
    /\ ~destroyed /\ ~drain
    /\ IF button # 0 \/ ~videoEl
       THEN UNCHANGED <<gestureVars, timeouts, clickTimer>>
       ELSE /\ lastPointerX' = clientX
            /\ isPointerDownOnVideo' = TRUE
            /\ swipeStartX' = clientX
            /\ swipeStartY' = clientY
            /\ swipeCurrentX' = clientX
            /\ swipeCurrentY' = clientY
            /\ swipeStartTime' = mediaTime
            /\ isSwiping' = FALSE
            /\ swipePointerId' = pointerId
            /\ swipeTargetEl' = "video"
            /\ timeouts' = clearTimeout(timeouts, clickTimer)
            /\ clickTimer' = Null
    /\ NoMediaCall
    /\ UNCHANGED <<overlayTimer, seekRafId, frames, tickPending, drain,
                   overlay, otherVars>>

handleVideoPointerDown(clientX, clientY, button, pointerId) ==
    /\ ~destroyed /\ ~drain
    /\ IF button # 0 \/ ~videoEl
       THEN UNCHANGED gestureVars
       ELSE /\ lastPointerX' = clientX
            /\ isPointerDownOnVideo' = TRUE
            /\ swipeStartX' = clientX
            /\ swipeStartY' = clientY
            /\ swipeCurrentX' = clientX
            /\ swipeCurrentY' = clientY
            /\ swipeStartTime' = mediaTime
            /\ isSwiping' = FALSE
            /\ swipePointerId' = pointerId
            /\ swipeTargetEl' = "video"
    /\ NoMediaCall
    /\ UNCHANGED <<timerVars, overlay, otherVars>>

\* a swipe test that accepts the threshold itself
EntersSwipeInclusive(absHorizontal, absVertical) ==
    /\ absHorizontal >= SWIPE_DETECTION_THRESHOLD
    /\ absHorizontal > absVertical

\* the test that turns a press into a swipe
EntersSwipe(absHorizontal, absVertical) ==
    /\ absHorizontal > SWIPE_DETECTION_THRESHOLD
    /\ absHorizontal > absVertical

\* a move guard that forgets that a pointer must be down on the video
MoveIgnoredUnlessPaused == ~videoEl \/ ~paused

\* a move guard that forgets that the media must be paused
MoveIgnoredUnlessPressed == ~videoEl \/ ~isPointerDownOnVideo

\* lines 196-202: the early returns of handleVideoPointerMove
MoveIgnored == ~videoEl \/ ~isPointerDownOnVideo \/ ~paused

\* a scrub that starts from wherever the media is now
handleVideoPointerMoveRelative(clientX, clientY) ==
    /\ ~destroyed /\ ~drain
    /\ IF MoveIgnored
       THEN /\ NoMediaCall
            /\ UNCHANGED <<gestureVars, timerVars, overlay, otherVars>>
       ELSE LET horizontalDistance == clientX - swipeStartX
                verticalDistance == clientY - swipeStartY
                enter == /\ ~isSwiping
                         /\ EntersSwipe(Abs(horizontalDistance),
                                        Abs(verticalDistance))
                swiping == isSwiping \/ enter
                swipeOffset == calculateSwipeOffset(horizontalDistance)
                targetTime == mediaTime + swipeOffset
                shown == IF enter THEN showSeekingOverlay(overlay) ELSE overlay
            IN  /\ swipeCurrentX' = clientX
                /\ swipeCurrentY' = clientY
                /\ isSwiping' = swiping
                /\ IF enter /\ clickTimer # Null
                   THEN /\ timeouts' = clearTimeout(timeouts, clickTimer)
                        /\ clickTimer' = Null
                   ELSE UNCHANGED <<timeouts, clickTimer>>
                /\ pointerCapture' =
                      IF enter /\ swipePointerId # Null /\ swipeTargetEl # "none"
                      THEN swipePointerId ELSE pointerCapture
                /\ IF swiping
                   THEN /\ SetMedia(MediaSeek(Media, ClampTime(targetTime)))
                        /\ overlay' = updateSwipeOverlay(shown, swipeOffset)
                   ELSE /\ NoMediaCall
                        /\ overlay' = shown
                /\ tapLog' = LogSwipe(tapLog, enter /\ clickTimer # Null)
                /\ UNCHANGED <<lastPointerX, isPointerDownOnVideo, swipeStartX,
                               swipeStartY, swipeStartTime, swipePointerId,
                               swipeTargetEl, overlayTimer, seekRafId, frames,
                               tickPending, drain, videoEl, destroyed,
                               isPlaying, showHelp, wasPlayingBeforeSeeking,
                               seekDrag, bookmarks>>

handleVideoPointerMove(clientX, clientY) ==
    /\ ~destroyed /\ ~drain
    /\ IF MoveIgnored
       THEN /\ NoMediaCall
            /\ UNCHANGED <<gestureVars, timerVars, overlay, otherVars>>
       ELSE LET horizontalDistance == clientX - swipeStartX
                verticalDistance == clientY - swipeStartY
                enter == /\ ~isSwiping
                         /\ EntersSwipe(Abs(horizontalDistance),
                                        Abs(verticalDistance))
                swiping == isSwiping \/ enter
                swipeOffset == calculateSwipeOffset(horizontalDistance)
                targetTime == swipeStartTime + swipeOffset
                shown == IF enter THEN showSeekingOverlay(overlay) ELSE overlay
            IN  /\ swipeCurrentX' = clientX
                /\ swipeCurrentY' = clientY
                /\ isSwiping' = swiping
                /\ IF enter /\ clickTimer # Null
                   THEN /\ timeouts' = clearTimeout(timeouts, clickTimer)
                        /\ clickTimer' = Null
                   ELSE UNCHANGED <<timeouts, clickTimer>>
                /\ pointerCapture' =
                      IF enter /\ swipePointerId # Null /\ swipeTargetEl # "none"
                      THEN swipePointerId ELSE pointerCapture
                /\ IF swiping
                   THEN /\ SetMedia(MediaSeek(Media, ClampTime(targetTime)))
                        /\ overlay' = updateSwipeOverlay(shown, swipeOffset)
                   ELSE /\ NoMediaCall
                        /\ overlay' = shown
                /\ tapLog' = LogSwipe(tapLog, enter /\ clickTimer # Null)
                /\ UNCHANGED <<lastPointerX, isPointerDownOnVideo, swipeStartX,
                               swipeStartY, swipeStartTime, swipePointerId,
                               swipeTargetEl, overlayTimer, seekRafId, frames,
                               tickPending, drain, videoEl, destroyed,
                               isPlaying, showHelp, wasPlayingBeforeSeeking,
                               seekDrag, bookmarks>>

\* a left zone that includes its boundary
IsLeftSideInclusive(offsetX, width) ==
    offsetX * LEFT_ZONE_RATIO[2] <= width * LEFT_ZONE_RATIO[1]

\* offsetX < rect.width * LEFT_ZONE_RATIO
IsLeftSide(offsetX, width) ==
    offsetX * LEFT_ZONE_RATIO[2] < width * LEFT_ZONE_RATIO[1]

\* offsetX > rect.width * RIGHT_ZONE_RATIO
IsRightSide(offsetX, width) ==
    offsetX * RIGHT_ZONE_RATIO[2] > width * RIGHT_ZONE_RATIO[1]

\* a double tap that looks at where the pointer was last seen
DoubleTapAtRelease(m) ==
    LET ts == clearTimeout(timeouts, clickTimer)
        offsetX == swipeCurrentX - rect.left
        isLeftSide == IsLeftSide(offsetX, rect.width)
        isRightSide == IsRightSide(offsetX, rect.width)
    IN  /\ clickTimer' = Null
        /\ IF isLeftSide \/ isRightSide
           THEN /\ SetMedia(seekBy(m, IF isLeftSide THEN -SEEK_AMOUNT
                                      ELSE SEEK_AMOUNT))
                /\ showSeekOverlay(IF isLeftSide THEN "⏮" ELSE "⏭",
                                   IF isLeftSide THEN "left" ELSE "right",
                                   ts)
           ELSE /\ SetMedia(m)
                /\ timeouts' = ts
                /\ UNCHANGED <<overlay, overlayTimer, tickPending>>

\* lines 265-277: the second pointer-up within the window, a double tap
DoubleTap(m) ==
    LET ts == clearTimeout(timeouts, clickTimer)
        offsetX == lastPointerX - rect.left
        isLeftSide == IsLeftSide(offsetX, rect.width)
        isRightSide == IsRightSide(offsetX, rect.width)
    IN  /\ clickTimer' = Null
        /\ IF isLeftSide \/ isRightSide
           THEN /\ SetMedia(seekBy(m, IF isLeftSide THEN -SEEK_AMOUNT
                                      ELSE SEEK_AMOUNT))
                /\ showSeekOverlay(IF isLeftSide THEN "⏮" ELSE "⏭",
                                   IF isLeftSide THEN "left" ELSE "right",
                                   ts)
           ELSE /\ SetMedia(m)
                /\ timeouts' = ts
                /\ UNCHANGED <<overlay, overlayTimer, tickPending>>

\* lines 278-285: the first pointer-up, which waits for a possible second
FirstTap(m) ==
    LET h == NewTimerId(timeouts, {clickTimer, overlayTimer})
    IN  /\ FreeTimerIds(timeouts, {clickTimer, overlayTimer}) # {}
        /\ clickTimer' = h
        /\ timeouts' = setTimeout(timeouts, h, "click",
                                  CLICK_DETECTION_WINDOW)
        /\ SetMedia(m)
        /\ UNCHANGED <<overlay, overlayTimer, tickPending>>

\* a click arbiter that schedules without looking at clickTimer
ClickArbiterAlwaysSchedules(m) == FirstTap(m)

\* lines 265-285: the click arbiter, run by a pointer-up that ends a press;
\* m is the media state the handler starts from
ClickArbiter(m) ==
    IF clickTimer # Null THEN DoubleTap(m) ELSE FirstTap(m)

\* a pointer-up handler that does not ask whether a press is on the video
VideoPointerUpFromAnyPress(m) ==
    IF ~videoEl
    THEN /\ SetMedia(m)
         /\ UNCHANGED <<gestureVars, timerVars, overlay, tapLog>>
    ELSE /\ isPointerDownOnVideo' = FALSE
         /\ swipePointerId' = Null
         /\ swipeTargetEl' = "none"
         /\ isSwiping' = FALSE
         /\ IF isSwiping
            THEN /\ overlay' = hideSeekingOverlay(overlay)
                 /\ SetMedia(m)
                 /\ UNCHANGED <<timerVars, tapLog>>
            ELSE /\ ClickArbiter(m)
                 /\ tickPending' <= MaxTicks
                 /\ Room
                 /\ tapLog' = LogTap(tapLog, clickTimer # Null
                                              /\ clickTimer' = Null)
                 /\ UNCHANGED <<seekRafId, frames, drain>>
         /\ UNCHANGED <<lastPointerX, swipeStartX, swipeStartY,
                        swipeStartTime, swipeCurrentX, swipeCurrentY>>

\* handleVideoPointerUp, started from media state m
VideoPointerUpFrom(m) ==
    IF ~videoEl \/ (~isPointerDownOnVideo /\ ~isSwiping)
    THEN /\ SetMedia(m)
         /\ UNCHANGED <<gestureVars, timerVars, overlay, tapLog>>
    ELSE /\ isPointerDownOnVideo' = FALSE
         /\ swipePointerId' = Null
         /\ swipeTargetEl' = "none"
         /\ isSwiping' = FALSE
         /\ IF isSwiping
            THEN /\ overlay' = hideSeekingOverlay(overlay)
                 /\ SetMedia(m)
                 /\ UNCHANGED <<timerVars, tapLog>>
            ELSE /\ ClickArbiter(m)
                 /\ tickPending' <= MaxTicks
                 /\ Room
                 /\ tapLog' = LogTap(tapLog, clickTimer # Null
                                              /\ clickTimer' = Null)
                 /\ UNCHANGED <<seekRafId, frames, drain>>
         /\ UNCHANGED <<lastPointerX, swipeStartX, swipeStartY,
                        swipeStartTime, swipeCurrentX, swipeCurrentY>>

\* <svelte:window onpointerup={handleVideoPointerUp} />, for a pointer
\* released anywhere but on the seek bar
handleVideoPointerUp(pointerId) ==
    /\ ~destroyed /\ ~drain
    /\ ReleaseCapture(pointerId)
    /\ VideoPointerUpFrom(Media)
    /\ UNCHANGED <<videoEl, destroyed, isPlaying, showHelp,
                   wasPlayingBeforeSeeking, seekDrag, bookmarks>>

\* a pointer-cancel that keeps the capture target it stored
handleVideoPointerCancelKeepsTarget(pointerId) ==
    /\ ~destroyed /\ ~drain
    /\ ReleaseCapture(pointerId)
    /\ isPointerDownOnVideo' = FALSE
    /\ swipePointerId' = Null
    /\ isSwiping' = FALSE
    /\ overlay' = IF isSwiping THEN hideSeekingOverlay(overlay) ELSE overlay
    /\ IF clickTimer # Null
       THEN /\ timeouts' = clearTimeout(timeouts, clickTimer)
            /\ clickTimer' = Null
       ELSE UNCHANGED <<timeouts, clickTimer>>
    /\ NoMediaCall
    /\ UNCHANGED <<lastPointerX, swipeStartX, swipeStartY, swipeStartTime,
                   swipeCurrentX, swipeCurrentY, swipeTargetEl, overlayTimer,
                   seekRafId, frames, tickPending, drain, videoEl, destroyed,
                   isPlaying, showHelp, wasPlayingBeforeSeeking, seekDrag,
                   bookmarks, tapLog>>

\* a pointer-cancel that leaves the click timer running
handleVideoPointerCancelKeepsTimer(pointerId) ==
    /\ ~destroyed /\ ~drain
    /\ ReleaseCapture(pointerId)
    /\ isPointerDownOnVideo' = FALSE
    /\ swipePointerId' = Null
    /\ swipeTargetEl' = "none"
    /\ isSwiping' = FALSE
    /\ overlay' = IF isSwiping THEN hideSeekingOverlay(overlay) ELSE overlay
    /\ NoMediaCall
    /\ UNCHANGED <<lastPointerX, swipeStartX, swipeStartY, swipeStartTime,
                   swipeCurrentX, swipeCurrentY, timerVars, videoEl,
                   destroyed, isPlaying, showHelp, wasPlayingBeforeSeeking,
                   seekDrag, bookmarks, tapLog>>

handleVideoPointerCancel(pointerId) ==
    /\ ~destroyed /\ ~drain
    /\ ReleaseCapture(pointerId)
    /\ isPointerDownOnVideo' = FALSE
    /\ swipePointerId' = Null
    /\ swipeTargetEl' = "none"
    /\ isSwiping' = FALSE
    /\ overlay' = IF isSwiping THEN hideSeekingOverlay(overlay) ELSE overlay
    /\ IF clickTimer # Null
       THEN /\ timeouts' = clearTimeout(timeouts, clickTimer)
            /\ clickTimer' = Null
       ELSE UNCHANGED <<timeouts, clickTimer>>
    /\ NoMediaCall
    /\ UNCHANGED <<lastPointerX, swipeStartX, swipeStartY, swipeStartTime,
                   swipeCurrentX, swipeCurrentY, overlayTimer, seekRafId,
                   frames, tickPending, drain, videoEl, destroyed, isPlaying,
                   showHelp, wasPlayingBeforeSeeking, seekDrag,
                   bookmarks, tapLog>>

-----------------------------------------------------------------------------
(* Keyboard, seek bar, teardown *)

\* a handleKeydown that does not look at the target of the event
handleKeydownAnyTarget(key, editable) ==
    /\ ~destroyed /\ ~drain
    /\ (key = " " /\ videoEl) => CanQueue
    /\ IF key = " " THEN SetMedia(togglePlay(Media))
       ELSE IF key = "ArrowLeft" THEN SetMedia(seekBy(Media, -SEEK_AMOUNT))
       ELSE IF key = "ArrowRight" THEN SetMedia(seekBy(Media, SEEK_AMOUNT))
       ELSE NoMediaCall
    /\ showHelp' = IF key = "?" THEN ~showHelp ELSE showHelp
    /\ UNCHANGED <<gestureVars, timerVars, overlay, videoEl, destroyed,
                   isPlaying, wasPlayingBeforeSeeking, seekDrag,
                   bookmarks, tapLog,
                   pointerCapture>>

handleKeydown(key, editable) ==
    /\ ~destroyed /\ ~drain
    /\ (key = " " /\ ~editable /\ videoEl) => CanQueue
    /\ IF editable THEN NoMediaCall
       ELSE IF key = " " THEN SetMedia(togglePlay(Media))
       ELSE IF key = "ArrowLeft" THEN SetMedia(seekBy(Media, -SEEK_AMOUNT))
       ELSE IF key = "ArrowRight" THEN SetMedia(seekBy(Media, SEEK_AMOUNT))
       ELSE NoMediaCall
    /\ showHelp' = IF ~editable /\ key = "?" THEN ~showHelp ELSE showHelp
    /\ UNCHANGED <<gestureVars, timerVars, overlay, videoEl, destroyed,
                   isPlaying, wasPlayingBeforeSeeking, seekDrag,
                   bookmarks, tapLog,
                   pointerCapture>>

FrameIdsOf(fs) == {f.id : f \in fs}

\* a cancelAnimationFrame that cancels nothing
cancelAnimationFrameNoop(fs, h) == fs

cancelAnimationFrame(fs, h) == {f \in fs : f.id # h}

\* requestAnimationFrame returns a handle that is neither pending nor held
NewFrameId(fs, held) == SetMin(FrameIds \ (FrameIdsOf(fs) \cup held))

handleSeekInput(time) ==
    /\ ~destroyed /\ ~drain
    /\ IF ~videoEl
       THEN UNCHANGED <<seekRafId, frames>>
       ELSE LET fs == IF seekRafId # Null
                      THEN cancelAnimationFrame(frames, seekRafId)
                      ELSE frames
                h == NewFrameId(fs, {seekRafId})
            IN  /\ seekRafId' = h
                /\ frames' = fs \cup {[id |-> h, time |-> time]}
    /\ NoMediaCall
    /\ UNCHANGED <<gestureVars, overlay, otherVars, overlayTimer, clickTimer,
                   timeouts, tickPending, drain>>

\* an animation-frame callback that leaves its handle in seekRafId
SeekFrameFireKeepsHandle ==
    /\ tickPending = 0
    /\ \E f \in frames :
          /\ frames' = frames \ {f}
          /\ IF videoEl THEN SetMedia(MediaSeek(Media, f.time))
             ELSE NoMediaCall
    /\ UNCHANGED <<gestureVars, overlay, otherVars, overlayTimer, clickTimer,
                   timeouts, tickPending, drain, seekRafId>>

\* the animation-frame callback of handleSeekInput
SeekFrameFire ==
    /\ tickPending = 0
    /\ \E f \in frames :
          /\ frames' = frames \ {f}
          /\ IF videoEl THEN SetMedia(MediaSeek(Media, f.time))
             ELSE NoMediaCall
    /\ seekRafId' = Null
    /\ UNCHANGED <<gestureVars, overlay, otherVars, overlayTimer, clickTimer,
                   timeouts, tickPending, drain>>

handleSeekPointerDown ==
    /\ ~destroyed /\ ~drain
    /\ seekDrag' = TRUE
    /\ IF ~videoEl
       THEN NoMediaCall /\ UNCHANGED wasPlayingBeforeSeeking
       ELSE /\ CanQueue
            /\ wasPlayingBeforeSeeking' = isPlaying
            /\ SetMedia(MediaPause(Media))
    /\ UNCHANGED <<gestureVars, timerVars, overlay, videoEl, destroyed,
                   isPlaying, showHelp, pointerCapture, bookmarks, tapLog>>

handleSeekPointerUp(m) ==
    IF videoEl /\ wasPlayingBeforeSeeking THEN MediaPlay(m) ELSE m

\* a pointer released on the seek bar: the input's onpointerup, then the
\* window's onpointerup as the event bubbles
SeekBarPointerUp(pointerId) ==
    /\ ~destroyed /\ ~drain
    /\ (videoEl /\ wasPlayingBeforeSeeking) => CanQueue
    /\ ReleaseCapture(pointerId)
    /\ VideoPointerUpFrom(handleSeekPointerUp(Media))
    /\ seekDrag' = FALSE
    /\ UNCHANGED <<videoEl, destroyed, isPlaying, showHelp,
                   wasPlayingBeforeSeeking, bookmarks>>

\* the pointer that went down on the seek bar is released elsewhere: the
\* input's onpointerup does not run, only the window's
SeekDragReleasedOutside(pointerId) ==
    /\ seekDrag
    /\ ~destroyed /\ ~drain
    /\ ReleaseCapture(pointerId)
    /\ VideoPointerUpFrom(Media)
    /\ seekDrag' = FALSE
    /\ UNCHANGED <<videoEl, destroyed, isPlaying, showHelp,
                   wasPlayingBeforeSeeking, bookmarks>>

-----------------------------------------------------------------------------
(* Bookmarks *)

\* A bookmark { time, label }. The label is `Bookmark ${formatTime(time)}`;
\* formatTime lives in shared/lib, so the label is kept as the prefix and
\* the time handed to formatTime.
Bookmark(t) == [time |-> t, label |-> <<"Bookmark ", t>>]

\* b goes behind every entry that does not come after it
InsertByTime(bs, b) ==
    LET k == Cardinality({i \in 1..Len(bs) : bs[i].time <= b.time})
    IN  SubSeq(bs, 1, k) \o <<b>> \o SubSeq(bs, k + 1, Len(bs))

\* a sort that leaves the list as it finds it
sortBookmarksNoop(bs) == bs

RECURSIVE sortBookmarks(_)
\* bookmarks.sort((a, b) => a.time - b.time): a stable sort by time
sortBookmarks(bs) ==
    IF bs = <<>> THEN <<>>
    ELSE InsertByTime(sortBookmarks(SubSeq(bs, 1, Len(bs) - 1)), bs[Len(bs)])

addBookmark ==
    /\ ~destroyed /\ ~drain
    /\ Len(bookmarks) < MaxBookmarks
    /\ bookmarks' =
          IF ~videoEl \/ mediaTime = NonFinite THEN bookmarks
          ELSE sortBookmarks(Append(bookmarks, Bookmark(mediaTime)))
    /\ NoMediaCall
    /\ UNCHANGED <<gestureVars, timerVars, overlay, videoEl, destroyed,
                   isPlaying, showHelp, wasPlayingBeforeSeeking, seekDrag,
                   pointerCapture, tapLog>>

seekToBookmark(bookmark) ==
    /\ ~destroyed /\ ~drain
    /\ IF ~videoEl THEN NoMediaCall
       ELSE SetMedia(MediaSeek(Media, bookmark.time))
    /\ UNCHANGED <<gestureVars, timerVars, overlay, otherVars>>

deleteBookmark(index) ==
    /\ ~destroyed /\ ~drain
    /\ bookmarks' = SubSeq(bookmarks, 1, index) \o
                    SubSeq(bookmarks, index + 2, Len(bookmarks))
    /\ NoMediaCall
    /\ UNCHANGED <<gestureVars, timerVars, overlay, videoEl, destroyed,
                   isPlaying, showHelp, wasPlayingBeforeSeeking, seekDrag,
                   pointerCapture, tapLog>>

\* loadFile(file), valid iff validateFile(file) returns no error; the
\* <video> takes the new src and starts over, paused at 0
loadFile(valid) ==
    /\ ~destroyed /\ ~drain
    /\ IF valid
       THEN /\ bookmarks' = <<>>
            /\ mediaTime' = 0
            /\ paused' = TRUE
       ELSE UNCHANGED <<bookmarks, mediaTime, paused>>
    /\ mediaCalls' = <<>>
    /\ UNCHANGED <<mediaDuration, mediaEvents, rect, gestureVars, timerVars,
                   overlay, videoEl, destroyed, isPlaying, showHelp,
                   wasPlayingBeforeSeeking, seekDrag, pointerCapture, tapLog>>

\* the handles clearAllTimers reads and the callbacks they may refer to
TimerState ==
    [clickTimer |-> clickTimer, overlayTimer |-> overlayTimer,
     seekRafId |-> seekRafId, timeouts |-> timeouts, frames |-> frames]

\* a clearAllTimers that forgets the overlay timer
clearAllTimersButOverlay(s) ==
    [s EXCEPT !.timeouts = clearTimeout(@, s.clickTimer),
              !.clickTimer = Null,
              !.frames = cancelAnimationFrame(@, s.seekRafId),
              !.seekRafId = Null]

\* clearAllTimers(), on the handles and pending callbacks s
clearAllTimersOn(s) ==
    [clickTimer |-> Null,
     overlayTimer |-> Null,
     seekRafId |-> Null,
     timeouts |->
        LET afterClick == IF s.clickTimer # Null
                          THEN clearTimeout(s.timeouts, s.clickTimer)
                          ELSE s.timeouts
        IN  IF s.overlayTimer # Null
            THEN clearTimeout(afterClick, s.overlayTimer) ELSE afterClick,
     frames |-> IF s.seekRafId # Null
                THEN cancelAnimationFrame(s.frames, s.seekRafId)
                ELSE s.frames]

\* clearAllTimers(), as a step of the component
clearAllTimers ==
    LET r == clearAllTimersOn(TimerState)
    IN  /\ timeouts' = r.timeouts
        /\ clickTimer' = r.clickTimer
        /\ overlayTimer' = r.overlayTimer
        /\ frames' = r.frames
        /\ seekRafId' = r.seekRafId

\* onDestroy: clearAllTimers(); the listeners go and bind:this is reset
Teardown ==
    /\ ~destroyed /\ ~drain
    /\ clearAllTimers
    /\ destroyed' = TRUE
    /\ videoEl' = FALSE
    /\ NoMediaCall
    /\ UNCHANGED <<gestureVars, overlay, tickPending, drain, isPlaying,
                   showHelp, wasPlayingBeforeSeeking, seekDrag,
                   bookmarks, tapLog,
                   pointerCapture>>

-----------------------------------------------------------------------------
(* Inputs and specifications *)

PointerIds == {1}
DownYs == {100}
Buttons == {0, 2}

\* The widget: gestures, timers, overlay, seek-bar input, teardown.
DownXs == {50, 160}
MoveDeltas == {<<100, 2>>, <<0, 30>>}
SeekValues == {Sec(3)}

VideoPointerDown ==
    \E x \in DownXs, y \in DownYs, b \in Buttons, p \in PointerIds :
        handleVideoPointerDown(x, y, b, p)

VideoPointerMove ==
    \E d \in MoveDeltas :
        handleVideoPointerMove(swipeStartX + d[1], swipeStartY + d[2])

WindowPointerUp == \E p \in PointerIds : handleVideoPointerUp(p)

VideoPointerCancel == \E p \in PointerIds : handleVideoPointerCancel(p)

SeekInput == \E v \in SeekValues : handleSeekInput(v)

Next ==
    \/ Mount
    \/ VideoPointerDown
    \/ VideoPointerMove
    \/ WindowPointerUp
    \/ VideoPointerCancel
    \/ ClickTimerFire
    \/ TickResume
    \/ OverlayTimerFire
    \/ SeekInput
    \/ SeekFrameFire
    \/ MediaEventDeliver
    \/ Teardown

Spec == Init /\ [][Next]_vars

\* Taps in every zone of the video surface: left, both zone boundaries,
\* the middle and right, on a medium longer than two skips.
ZoneXs == {50, 110, 160, 210, 270}

InitZones == InitWith(Sec(12), 0, TRUE)

ZonePointerDown ==
    \E x \in ZoneXs, y \in DownYs, p \in PointerIds :
        handleVideoPointerDown(x, y, 0, p)

NextZones ==
    \/ Mount
    \/ ZonePointerDown
    \/ WindowPointerUp
    \/ ClickTimerFire
    \/ TickResume
    \/ OverlayTimerFire
    \/ MediaEventDeliver

SpecZones == InitZones /\ [][NextZones]_vars

\* One press on the video followed by pointer moves, from several media
\* positions, finite and non-finite durations, paused and playing.
SwipeDurations == {Sec(4), NonFinite}
SwipeStartTimes == {0, Sec(2), Sec(4)}
SwipeDXs == {-200, -100, -15, -11, -10, 0, 10, 11, 15, 100, 200}
SwipeDYs == {0, 2, 15, 20}

InitSwipe ==
    \E d \in SwipeDurations, t0 \in SwipeStartTimes, p \in BOOLEAN :
        InitWith(d, t0, p)

SwipePointerDown ==
    /\ ~isPointerDownOnVideo
    /\ \E p \in PointerIds : handleVideoPointerDown(160, 100, 0, p)

SwipePointerMove ==
    \E dx \in SwipeDXs, dy \in SwipeDYs :
        handleVideoPointerMove(swipeStartX + dx, swipeStartY + dy)

NextSwipe ==
    \/ Mount
    \/ SwipePointerDown
    \/ SwipePointerMove

SpecSwipe == InitSwipe /\ [][NextSwipe]_vars

\* The seek bar and the keyboard, with the media playing or paused.
SeekBarValues == {0, Sec(3), Sec(5)}
Keys == {" ", "ArrowLeft", "ArrowRight", "?", "a"}

SeekBarInput == \E v \in SeekBarValues : handleSeekInput(v)

SeekPointerDown == handleSeekPointerDown

SeekPointerUp == \E p \in PointerIds : SeekBarPointerUp(p)

Keydown == \E k \in Keys, e \in BOOLEAN : handleKeydown(k, e)

NextSeek ==
    \/ Mount
    \/ SeekBarInput
    \/ SeekFrameFire
    \/ SeekPointerDown
    \/ SeekPointerUp
    \/ Keydown
    \/ MediaEventDeliver
    \/ Teardown

SpecSeek == Init /\ [][NextSeek]_vars

\* Two pointers (two fingers, or a finger and a mouse) on a paused medium:
\* the window receives the pointer-up of either, the video the down, move
\* and cancel of either.
TouchPointerIds == {1, 2}

TouchPointerDown ==
    \E p \in TouchPointerIds : handleVideoPointerDown(160, 100, 0, p)

TouchPointerUp == \E p \in TouchPointerIds : handleVideoPointerUp(p)

TouchPointerCancel == \E p \in TouchPointerIds : handleVideoPointerCancel(p)

NextTouch ==
    \/ Mount
    \/ TouchPointerDown
    \/ VideoPointerMove
    \/ TouchPointerUp
    \/ TouchPointerCancel
    \/ ClickTimerFire
    \/ TickResume
    \/ OverlayTimerFire
    \/ MediaEventDeliver

SpecTouch == Init /\ [][NextTouch]_vars

\* A press and moves on a medium that starts out playing; taps pause and
\* resume it.
InitPlaying == InitWith(Sec(4), Sec(2), FALSE)

\* offsets of whole seconds: dx = 100 is 3 s
PlayingDXs == {-100, 0, 100}
PlayingDYs == {2, 150}

PlayingPointerMove ==
    \E dx \in PlayingDXs, dy \in PlayingDYs :
        handleVideoPointerMove(swipeStartX + dx, swipeStartY + dy)

NextPlaying ==
    \/ Mount
    \/ SwipePointerDown
    \/ PlayingPointerMove
    \/ WindowPointerUp
    \/ ClickTimerFire
    \/ TickResume
    \/ OverlayTimerFire
    \/ MediaEventDeliver

SpecPlaying == InitPlaying /\ [][NextPlaying]_vars

\* A swipe on paused media with the keyboard at hand: space starts or
\* stops playback in the middle of a drag, the arrows skip.
ScrubKeys == {" ", "ArrowRight"}

ScrubKeydown == \E k \in ScrubKeys : handleKeydown(k, FALSE)

NextScrub ==
    \/ Mount
    \/ SwipePointerDown
    \/ PlayingPointerMove
    \/ WindowPointerUp
    \/ ScrubKeydown
    \/ MediaEventDeliver
    \/ ClickTimerFire
    \/ TickResume
    \/ OverlayTimerFire

SpecScrub == Init /\ [][NextScrub]_vars

\* Seek-bar drags whose pointer is released on the bar or anywhere else in
\* the window, with the space key starting and stopping playback.
SeekDragRelease == \E p \in PointerIds : SeekDragReleasedOutside(p)

NextSeekDrag ==
    \/ Mount
    \/ ScrubKeydown
    \/ MediaEventDeliver
    \/ SeekPointerDown
    \/ SeekBarInput
    \/ SeekFrameFire
    \/ SeekPointerUp
    \/ SeekDragRelease

SpecSeekDrag == Init /\ [][NextSeekDrag]_vars

\* Key-downs of every kind, in and outside text fields, between and during
\* taps on the video.
NextKeys ==
    \/ Mount
    \/ SwipePointerDown
    \/ WindowPointerUp
    \/ Keydown
    \/ ClickTimerFire
    \/ TickResume
    \/ OverlayTimerFire
    \/ MediaEventDeliver

SpecKeys == Init /\ [][NextKeys]_vars

\* Taps in every zone whose pointer drifts 100 pixels sideways (and further
\* down, so that no swipe begins) before it is released; every second tap
\* comes inside the click window.
TapDrift ==
    \E dx \in {-100, 100} :
        handleVideoPointerMove(swipeStartX + dx, swipeStartY + 150)

NextDrift ==
    \/ Mount
    \/ ZonePointerDown
    \/ TapDrift
    \/ WindowPointerUp
    \/ TickResume
    \/ OverlayTimerFire

SpecDrift == InitZones /\ [][NextDrift]_vars

\* One run of up to MaxTaps quick taps in any zones: every pointer-up comes
\* before the click timer has fired, which it may do once the taps stop.
InitTaps == InitState(Sec(12), 0, TRUE, [NoLog EXCEPT !.on = TRUE])

RunPointerDown ==
    /\ tapLog.taps < MaxTaps /\ tapLog.toggles = 0
    /\ ~isPointerDownOnVideo
    /\ ZonePointerDown

RunPointerUp == tapLog.toggles = 0 /\ WindowPointerUp

NextTaps ==
    \/ Mount
    \/ RunPointerDown
    \/ RunPointerUp
    \/ ClickTimerFire
    \/ TickResume
    \/ OverlayTimerFire
    \/ MediaEventDeliver

SpecTaps == InitTaps /\ [][NextTaps]_vars

\* Up to MaxTaps taps mixed with presses, moves, releases and cancels, the
\* timers running in between; the history of InitTaps is kept.
SessionPointerDown == tapLog.taps < MaxTaps /\ VideoPointerDown

NextSession ==
    \/ Mount
    \/ SessionPointerDown
    \/ VideoPointerMove
    \/ WindowPointerUp
    \/ VideoPointerCancel
    \/ ClickTimerFire
    \/ TickResume
    \/ OverlayTimerFire
    \/ MediaEventDeliver

SpecSession == InitTaps /\ [][NextSession]_vars

\* Taps on the video and presses of the seek bar, in any order, with the
\* click timer running in between.
NextSeekTap ==
    \/ Mount
    \/ SwipePointerDown
    \/ WindowPointerUp
    \/ SeekPointerDown
    \/ SeekPointerUp
    \/ ClickTimerFire
    \/ TickResume
    \/ OverlayTimerFire
    \/ MediaEventDeliver

SpecSeekTap == Init /\ [][NextSeekTap]_vars

\* A swipe whose pointer capture can be lost before the pointer goes up.
NextCapture ==
    \/ Mount
    \/ SwipePointerDown
    \/ PlayingPointerMove
    \/ LostPointerCapture
    \/ WindowPointerUp
    \/ VideoPointerCancel
    \/ ClickTimerFire
    \/ TickResume
    \/ OverlayTimerFire
    \/ MediaEventDeliver

SpecCapture == Init /\ [][NextCapture]_vars

\* Skips by the arrow keys and by double taps at the left and right, on media
\* of known and of unknown duration; every second tap comes inside the click
\* window.
InitSkip == \E d \in {Sec(12), NonFinite} : InitWith(d, Sec(2), TRUE)

SkipPointerDown ==
    \E x \in {50, 270}, p \in PointerIds : handleVideoPointerDown(x, 100, 0, p)

SkipPointerUp == mediaTime < Sec(MaxPosition) /\ WindowPointerUp

SkipKeydown ==
    \/ handleKeydown("ArrowLeft", FALSE)
    \/ mediaTime < Sec(MaxPosition) /\ handleKeydown("ArrowRight", FALSE)

NextSkip ==
    \/ Mount
    \/ SkipPointerDown
    \/ SkipPointerUp
    \/ SkipKeydown
    \/ TickResume
    \/ OverlayTimerFire

SpecSkip == InitSkip /\ [][NextSkip]_vars

\* Bookmarks added at the positions the arrow keys lead to, deleted at any
\* index, and dropped by a newly loaded file.
NextBookmarks ==
    \/ Mount
    \/ SkipKeydown
    \/ addBookmark
    \/ \E b \in DOMAIN bookmarks : seekToBookmark(bookmarks[b])
    \/ \E index \in 0 .. Len(bookmarks) - 1 : deleteBookmark(index)
    \/ \E valid \in BOOLEAN : loadFile(valid)

SpecBookmarks == InitZones /\ [][NextBookmarks]_vars

\* Every handler that reaches for the media element, run while the <video>
\* is not bound yet, whatever the condition of the media behind it.
NoMediaDurations == {Sec(4), Sec(9), NonFinite}
NoMediaTimes == {0, Sec(1), Sec(2), Sec(3), Sec(4)}

InitNoMedia ==
    \E d \in NoMediaDurations, t \in NoMediaTimes, p \in BOOLEAN :
        InitWith(d, t, p)

\* a bookmark handed to onSeek
SeekBookmarks == {Bookmark(0), Bookmark(Sec(3))}

SeekToBookmark ==
    \E b \in SeekBookmarks \cup {bookmarks[i] : i \in DOMAIN bookmarks} :
        seekToBookmark(b)

NextNoMedia ==
    \/ VideoPointerDown
    \/ PlayingPointerMove
    \/ WindowPointerUp
    \/ SeekBarInput
    \/ SeekPointerDown
    \/ SeekPointerUp
    \/ Keydown
    \/ addBookmark
    \/ SeekToBookmark

SpecNoMedia == InitNoMedia /\ [][NextNoMedia]_vars

-----------------------------------------------------------------------------
(* Properties *)

PendingIn(ts, kind) == {t \in ts : t.kind = kind}

\* a pointer-up that ends a press which never became a swipe
TapUp ==
    /\ WindowPointerUp
    /\ videoEl /\ isPointerDownOnVideo /\ ~isSwiping

CenterOverlay(symbol) ==
    [show |-> FALSE, symbol |-> symbol, side |-> "center", fade |-> TRUE]

\* C1: a single tap on paused media makes no media call at the pointer-up:
\* it schedules one click timer of CLICK_DETECTION_WINDOW ms.  When that
\* timer fires on paused media there is exactly one media call, play(), the
\* center overlay is set up with fade enabled, and the continuation that
\* runs next shows it.
C1_SingleTapTogglesPlay ==
    [][ /\ (TapUp /\ clickTimer = Null) =>
              /\ mediaCalls' = <<>>
              /\ paused' = paused
              /\ PendingIn(timeouts', "click") =
                     {[id |-> clickTimer', kind |-> "click",
                       delay |-> CLICK_DETECTION_WINDOW]}
        /\ (ClickTimerFire /\ videoEl /\ paused) =>
              /\ mediaCalls' = <<Call("play", 0)>>
              /\ ~paused'
              /\ PendingIn(timeouts', "click") = {}
              /\ overlay' = CenterOverlay("▶")
              /\ drain'
        /\ drain => (overlay'.show /\ overlay'.fade /\ mediaCalls' = <<>>)
      ]_vars

\* C1 witness: the click timer has just fired on paused media
C1_Witness ==
    /\ drain
    /\ ~paused
    /\ mediaCalls = <<Call("play", 0)>>
    /\ overlay = CenterOverlay("▶")

\* a pointer-up that is the second tap inside the click window
SecondTapUp == TapUp /\ clickTimer # Null

NoPlayPauseCall(calls) ==
    \A i \in 1 .. Len(calls) : calls[i].op \notin {"play", "pause"}

\* C2: a second tap's pointer-up that arrives while the click timer is
\* pending cancels that timer and makes no play/pause call; no click callback
\* is pending afterwards, and the only click callback that can ever be
\* pending is the one clickTimer holds, so the first tap's toggle never runs.
C2_SecondTapCancelsSingleTap ==
    [][ /\ SecondTapUp =>
              /\ clickTimer' = Null
              /\ PendingIn(timeouts', "click") = {}
              /\ NoPlayPauseCall(mediaCalls')
              /\ paused' = paused
        /\ \A t \in PendingIn(timeouts', "click") : t.id = clickTimer'
      ]_vars

\* C2 witness: a double tap in the left zone has just been resolved
C2_Witness ==
    /\ clickTimer = Null
    /\ PendingOf("click") = {}
    /\ ~isPointerDownOnVideo
    /\ Len(mediaCalls) = 1 /\ mediaCalls[1].op = "currentTime"
    /\ overlay.symbol = "⏮" /\ ~overlay.show

SkipOverlay(symbol, side) ==
    [show |-> FALSE, symbol |-> symbol, side |-> side, fade |-> TRUE]

\* C3: a double tap whose x-offset is below width * 1/3 makes exactly one
\* media call, a write of max(0, position - SEEK_AMOUNT), and sets up the
\* left overlay with the backward glyph and fade; above width * 2/3 it
\* writes min(position + SEEK_AMOUNT, duration) and sets up the right
\* overlay with the forward glyph; neither toggles play, and the
\* continuation shows the overlay as it was set up.
C3_DoubleTapZoneSkip ==
    [][ /\ SecondTapUp =>
            LET offsetX == lastPointerX - rect.left
                back == Max2(0, mediaTime - Sec(SEEK_AMOUNT))
                forth == Min2(mediaTime + Sec(SEEK_AMOUNT), mediaDuration)
            IN  /\ 3 * offsetX < rect.width =>
                      /\ mediaCalls' = <<Call("currentTime", back)>>
                      /\ mediaTime' = back
                      /\ paused' = paused
                      /\ overlay' = SkipOverlay("⏮", "left")
                      /\ tickPending' = tickPending + 1
                      /\ PendingIn(timeouts', "click") = {}
                /\ 3 * offsetX > 2 * rect.width =>
                      /\ mediaCalls' = <<Call("currentTime", forth)>>
                      /\ mediaTime' = forth
                      /\ paused' = paused
                      /\ overlay' = SkipOverlay("⏭", "right")
                      /\ tickPending' = tickPending + 1
                      /\ PendingIn(timeouts', "click") = {}
        /\ tickPending' < tickPending =>
              overlay' = [overlay EXCEPT !.show = TRUE]
      ]_vars

\* C3 witness: the forward-skip overlay is on screen after one skip from 0
C3_Witness ==
    /\ overlay = [show |-> TRUE, symbol |-> "⏭", side |-> "right",
                  fade |-> TRUE]
    /\ mediaTime = Sec(SEEK_AMOUNT)
    /\ paused

\* C4: a double tap whose x-offset lies in [width * 1/3, width * 2/3], both
\* ends included, makes no media call, leaves position, play state and
\* overlay as they were, queues no overlay continuation and leaves the click
\* arbiter with no handle and no pending callback.
C4_DeadMiddleZone ==
    [][ SecondTapUp =>
            LET offsetX == lastPointerX - rect.left
            IN  (rect.width <= 3 * offsetX /\ 3 * offsetX <= 2 * rect.width) =>
                    /\ mediaCalls' = <<>>
                    /\ mediaTime' = mediaTime
                    /\ paused' = paused
                    /\ mediaEvents' = mediaEvents
                    /\ overlay' = overlay
                    /\ tickPending' = tickPending
                    /\ overlayTimer' = overlayTimer
                    /\ clickTimer' = Null
                    /\ PendingIn(timeouts', "click") = {}
      ]_vars

\* C4 witness: a double tap on the left boundary (offset 100 of width 300)
\* has been dropped: nothing was ever shown or played
C4_Witness ==
    /\ videoEl
    /\ lastPointerX - rect.left = 100
    /\ 3 * (lastPointerX - rect.left) = rect.width
    /\ ~isPointerDownOnVideo
    /\ clickTimer = Null /\ timeouts = {} /\ tickPending = 0
    /\ overlay.symbol = ""
    /\ mediaTime = 0 /\ paused

\* a pointer-move delivered while the press is still unconfirmed and the
\* media is paused
UnconfirmedMove ==
    /\ SwipePointerMove
    /\ videoEl /\ isPointerDownOnVideo /\ ~isSwiping /\ paused

C6_SwipeMonotonicClamped ==
    [][ (SwipePointerMove /\ videoEl /\ isPointerDownOnVideo /\ paused
           /\ isSwiping') =>
            LET dx == swipeCurrentX - swipeStartX
                dx2 == swipeCurrentX' - swipeStartX
            IN  /\ mediaCalls' = <<Call("currentTime", mediaTime')>>
                /\ mediaTime' >= 0
                /\ mediaDuration # NonFinite => mediaTime' <= mediaDuration
                /\ (0 <= dx /\ dx <= dx2) => mediaTime' >= mediaTime
                /\ (dx2 <= dx /\ dx <= 0) => mediaTime' <= mediaTime
      ]_vars

\* C6 witness: a swipe whose target lies beyond the duration wrote the
\* duration
C6_Witness ==
    /\ isSwiping
    /\ mediaDuration # NonFinite
    /\ swipeStartTime + calculateSwipeOffset(swipeCurrentX - swipeStartX)
           > mediaDuration
    /\ mediaTime = mediaDuration
    /\ mediaCalls = <<Call("currentTime", mediaDuration)>>

\* C7: a seek-bar input writes nothing to the media position; it leaves
\* exactly one animation-frame callback pending, holding the value of that
\* (the last) input; the frame callback makes exactly one write, of the
\* pending value, and leaves none pending.
C7_SeekCoalescing ==
    [][ /\ Cardinality(frames') <= 1
        /\ \A v \in SeekBarValues :
              (handleSeekInput(v) /\ videoEl) =>
                  /\ frames' = {[id |-> seekRafId', time |-> v]}
                  /\ mediaCalls' = <<>>
                  /\ mediaTime' = mediaTime
        /\ (SeekFrameFire /\ videoEl) =>
              /\ \E f \in frames :
                    /\ mediaCalls' = <<Call("currentTime", f.time)>>
                    /\ mediaTime' = f.time
              /\ frames' = {}
              /\ seekRafId' = Null
      ]_vars

\* C7 witness: a second input replaced the pending frame request (handle 2
\* is only given out while handle 1 is held) and carries the last value
C7_Witness ==
    /\ frames = {[id |-> 2, time |-> Sec(5)]}
    /\ seekRafId = 2
    /\ mediaTime = 0

\* C8: after teardown no click, overlay-hide or seek-frame callback is
\* pending, so none executes and none becomes pending, whatever the state
\* at teardown was (a discrete overlay show may still await its tick).
C8_TeardownSafety ==
    destroyed => (timeouts = {} /\ frames = {})

\* C9: at most one click timer is pending, and a click timer becomes
\* pending only at a tap pointer-up that found none pending.
C9_ClickArbiterInvariant ==
    [][ /\ Cardinality(PendingIn(timeouts', "click")) <= 1
        /\ (PendingIn(timeouts', "click") \ PendingIn(timeouts, "click") # {})
              => (TapUp /\ clickTimer = Null
                        /\ PendingIn(timeouts, "click") = {})
      ]_vars

\* C9 witness: a press is down for a second tap while the first tap's timer
\* is pending
C9_Witness ==
    /\ Cardinality(PendingOf("click")) = 1
    /\ clickTimer \in TimeoutIds(PendingOf("click"))
    /\ isPointerDownOnVideo /\ ~isSwiping

\* C10: for each of click, overlayHide and seekFrame at most one callback
\* is pending.
C10_NoTimerOverlap ==
    /\ Cardinality(PendingOf("click")) <= 1
    /\ Cardinality(PendingOf("overlayHide")) <= 1
    /\ Cardinality(frames) <= 1

\* C11: clearAllTimers leaves clickTimer, overlayTimer and seekRafId null
\* and cancels the callbacks those handles referred to (and only those);
\* applied again it changes nothing, and applied to a state whose handles
\* are already null it changes nothing.  Teardown applies it.
C11_ClearAllReleasesAndIsIdempotent ==
    [][ LET s == TimerState
            r == clearAllTimersOn(s)
        IN  /\ r.clickTimer = Null /\ r.overlayTimer = Null
            /\ r.seekRafId = Null
            /\ r.timeouts = {t \in s.timeouts :
                               t.id \notin {s.clickTimer, s.overlayTimer}}
            /\ r.frames = {f \in s.frames : f.id # s.seekRafId}
            /\ clearAllTimersOn(r) = r
            /\ (s.clickTimer = Null /\ s.overlayTimer = Null
                  /\ s.seekRafId = Null) => r = s
            /\ Teardown => TimerState' = r
      ]_vars

\* C11 witness: teardown found a discrete overlay on screen, so its hide
\* timer was pending, and nothing is pending now
C11_Witness ==
    /\ destroyed
    /\ overlay.show /\ overlay.fade
    /\ tickPending = 0
    /\ clickTimer = Null /\ overlayTimer = Null /\ seekRafId = Null
    /\ timeouts = {} /\ frames = {}

\* a pointer-up or pointer-cancel delivered while the session is Swiping
SwipeEnd ==
    /\ videoEl /\ isSwiping
    /\ WindowPointerUp \/ VideoPointerCancel \/ TouchPointerUp
          \/ TouchPointerCancel

\* what the end of a swipe does to the session, the overlay, the media and
\* the click arbiter
SwipeEndEffect ==
    /\ ~isSwiping' /\ ~isPointerDownOnVideo'
    /\ swipePointerId' = Null /\ swipeTargetEl' = "none"
    /\ overlay' = [overlay EXCEPT !.show = FALSE]
    /\ mediaCalls' = <<>>
    /\ UNCHANGED <<paused, mediaTime, mediaEvents>>
    /\ clickTimer = Null /\ clickTimer' = Null
    /\ timeouts' = timeouts
    /\ UNCHANGED <<tickPending, overlayTimer>>

\* C12: a pointer-up or pointer-cancel while Swiping releases pointer
\* capture, hides the overlay at once, resets the session to Idle, makes
\* no media call, schedules and cancels no timer and leaves the click
\* arbiter without a pending tap.
C12_SwipeEndIsNotTap ==
    [][ SwipeEnd => (SwipeEndEffect /\ pointerCapture' = Null) ]_vars

\* a pointer-move on the video with a pointer down while the media plays
MoveWhilePlaying ==
    /\ SwipePointerMove \/ VideoPointerMove \/ PlayingPointerMove
    /\ videoEl /\ isPointerDownOnVideo /\ ~paused

\* C13: while the media is playing a pointer-move with a pointer down
\* changes nothing, whatever dx and dy are: the session stays as it was (not
\* Swiping if it was unconfirmed), no position is written, the overlay and
\* the click timer are untouched; the pointer-up of that press then goes
\* through the click arbiter as a tap.
C13_SwipePausedOnly ==
    [][ /\ MoveWhilePlaying =>
              /\ mediaCalls' = <<>>
              /\ UNCHANGED <<mediaVars, gestureVars, timerVars, overlay,
                             otherVars>>
        /\ (TapUp /\ ~paused) =>
              /\ clickTimer = Null =>
                    PendingIn(timeouts', "click") =
                        {[id |-> clickTimer', kind |-> "click",
                          delay |-> CLICK_DETECTION_WINDOW]}
              /\ clickTimer # Null =>
                    (clickTimer' = Null /\ PendingIn(timeouts', "click") = {})
        /\ (~paused /\ ~isSwiping) => ~isSwiping'
      ]_vars

\* C13 witness: a press is down on playing media with a tap pending and an
\* overlay on screen, where a move would cancel and redraw if it were taken
C13_Witness ==
    /\ videoEl /\ isPointerDownOnVideo /\ ~isSwiping /\ ~paused
    /\ clickTimer # Null
    /\ overlay.show

\* a pointer-move delivered to the video while the session is Swiping
MoveWhileSwiping ==
    /\ PlayingPointerMove \/ SwipePointerMove \/ VideoPointerMove
    /\ videoEl /\ isPointerDownOnVideo /\ isSwiping

\* the move wrote clamp(start + offset(dx)) and drew the signed offset
ScrubWritten ==
    LET dx == swipeCurrentX' - swipeStartX
        offset == dx * SWIPE_BASE_SENSITIVITY
                      + Sign(dx) * SWIPE_ACCELERATION * dx * dx
        target == swipeStartTime + offset
        clamped == IF target < 0 THEN 0
                   ELSE IF mediaDuration # NonFinite /\ target > mediaDuration
                        THEN mediaDuration
                   ELSE target
    IN  /\ mediaCalls' = <<Call("currentTime", clamped)>>
        /\ mediaTime' = clamped
        /\ overlay'.symbol = SwipeSymbol(offset)
        /\ dx = 100 => overlay'.symbol = "+3.0s"
        /\ dx = -100 => overlay'.symbol = "-3.0s"
        /\ dx = 0 => overlay'.symbol = "0.0s"
        /\ UNCHANGED <<swipeStartX, swipeStartTime>>

\* C14: every pointer-move received while the session is Swiping sets the
\* media position to clamp(startMediaTime + offset(dx), 0, duration or
\* unbounded) and updates the overlay text to the signed offset.
C14_ScrubTarget ==
    [][ MoveWhileSwiping => ScrubWritten ]_vars

\* C14, amended: every pointer-move received while the session is Swiping
\* and the media is paused sets the media position to clamp(startMediaTime
\* + offset(dx), 0, duration or unbounded) and updates the overlay text to
\* the signed offset, startMediaTime being the position the pointer-down
\* captured; a move received while the media plays writes nothing.
C14_ScrubTargetWhilePaused ==
    [][ /\ (MoveWhileSwiping /\ paused) => ScrubWritten
        /\ (MoveWhileSwiping /\ ~paused) =>
              (mediaCalls' = <<>> /\ mediaTime' = mediaTime
                 /\ overlay' = overlay)
        /\ (SwipePointerDown /\ videoEl) => swipeStartTime' = mediaTime
      ]_vars

\* C14 witness: a swipe that began at 5 s and went 100 px to the left has
\* written 2 s and drawn "-3.0s"
C14_Witness ==
    /\ isSwiping /\ paused
    /\ swipeStartTime = Sec(5)
    /\ swipeCurrentX - swipeStartX = -100
    /\ mediaTime = Sec(2)
    /\ mediaCalls = <<Call("currentTime", Sec(2))>>
    /\ overlay.symbol = "-3.0s" /\ overlay.show /\ ~overlay.fade

\* a pointer-move that takes the session from PressedUnconfirmed to Swiping
EnterSwiping ==
    /\ VideoPointerMove \/ SwipePointerMove \/ PlayingPointerMove
    /\ ~isSwiping /\ isSwiping'

\* C15: the pointer-move that enters Swiping cancels the pending click
\* timer, if any, so that no click callback is left to fire; it captures
\* the session's pointer and leaves the overlay visible with fade disabled.
C15_EnterSwipingCancelsTap ==
    [][ EnterSwiping =>
            /\ clickTimer' = Null
            /\ PendingIn(timeouts', "click") = {}
            /\ PendingIn(timeouts', "overlayHide")
                   = PendingIn(timeouts, "overlayHide")
            /\ swipePointerId # Null
            /\ pointerCapture' = swipePointerId
            /\ overlay'.show /\ ~overlay'.fade
            /\ NoPlayPauseCall(mediaCalls')
            /\ paused' = paused
      ]_vars

\* C15 witness: Swiping has been entered from a press made while the
\* overlay of an earlier tap (fade enabled) was still due to be hidden
C15_Witness ==
    /\ isSwiping /\ isPointerDownOnVideo
    /\ clickTimer = Null /\ PendingOf("click") = {}
    /\ PendingOf("overlayHide") # {}
    /\ pointerCapture = swipePointerId /\ pointerCapture # Null
    /\ overlay.show /\ ~overlay.fade

\* C16: while the session is Swiping the overlay is visible with fade
\* disabled; no overlay-hide timer, not even one an earlier tap or
\* double-tap overlay left pending, hides it before the pointer-up or
\* pointer-cancel.
C16_ContinuousOverlayStays ==
    isSwiping => (overlay.show /\ ~overlay.fade)

\* the overlay-hide callbacks a step ran or cancelled
HideTimersGone == PendingIn(timeouts, "overlayHide") \ timeouts'

\* C17: the continuation of a discrete show makes the overlay visible and
\* starts its hide timer of OVERLAY_FADE_DURATION ms; a hide timer that
\* fires hides the overlay, and it is the timer of the latest discrete
\* show (the one overlayTimer holds), never the timer of an earlier overlay
\* that a newer one has replaced.
C17_DiscreteAutoHide ==
    [][ /\ TickResume =>
              /\ overlay'.show
              /\ [id |-> overlayTimer', kind |-> "overlayHide",
                  delay |-> OVERLAY_FADE_DURATION] \in timeouts'
        /\ OverlayTimerFire =>
              /\ ~overlay'.show
              /\ \A t \in HideTimersGone : t.id = overlayTimer
      ]_vars

\* C18: a pointer-down on the seek bar pauses the media and remembers
\* whether it was playing (not paused) at that moment, also when a play or
\* pause event is still undelivered; the pointer-up that ends the drag
\* calls play if and only if that is remembered, so the drag leaves the
\* play state as it found it.
C18_SeekDragPauseResume ==
    [][ /\ (SeekPointerDown /\ videoEl) =>
              /\ mediaCalls' = <<Call("pause", 0)>>
              /\ paused'
              /\ wasPlayingBeforeSeeking' = ~paused
        /\ (SeekPointerUp /\ videoEl) =>
              /\ wasPlayingBeforeSeeking =>
                    (mediaCalls' = <<Call("play", 0)>> /\ ~paused')
              /\ ~wasPlayingBeforeSeeking =>
                    (mediaCalls' = <<>> /\ paused' = paused)
      ]_vars

\* C19: the pointer-up that ends a seek-bar drag resumes playback when the
\* drag began while playing, whether the pointer is released on the seek
\* bar or anywhere else in the window, and the drag is over.
C19_SeekDragEndsAnywhere ==
    [][ ((SeekPointerUp \/ SeekDragRelease) /\ videoEl /\ seekDrag
            /\ wasPlayingBeforeSeeking) =>
            /\ mediaCalls' = <<Call("play", 0)>>
            /\ ~paused'
            /\ ~seekDrag'
      ]_vars

\* a pointer-cancel delivered while a press is down and unconfirmed
CancelUnconfirmed ==
    /\ VideoPointerCancel
    /\ isPointerDownOnVideo /\ ~isSwiping

\* C20: a pointer-cancel while PressedUnconfirmed drops the pending click
\* timer, resets the session to Idle and makes no media call and no overlay
\* change; no click callback is left that could toggle later, and a
\* pointer-up that finds the session Idle changes nothing.
C20_CancelUnconfirmed ==
    [][ /\ CancelUnconfirmed =>
              /\ clickTimer' = Null
              /\ PendingIn(timeouts', "click") = {}
              /\ PendingIn(timeouts', "overlayHide")
                     = PendingIn(timeouts, "overlayHide")
              /\ ~isPointerDownOnVideo' /\ ~isSwiping'
              /\ swipePointerId' = Null /\ swipeTargetEl' = "none"
              /\ mediaCalls' = <<>>
              /\ UNCHANGED <<mediaVars, overlay, overlayTimer, tickPending,
                             seekRafId, frames>>
        /\ (WindowPointerUp /\ ~isPointerDownOnVideo /\ ~isSwiping) =>
              /\ mediaCalls' = <<>>
              /\ UNCHANGED <<mediaVars, gestureVars, timerVars, overlay>>
        /\ \A t \in PendingIn(timeouts', "click") : t.id = clickTimer'
      ]_vars

\* C20 witness: a press in the left zone was cancelled; nothing was
\* played, skipped or shown and nothing is pending
C20_Witness ==
    /\ videoEl /\ lastPointerX = 50
    /\ ~isPointerDownOnVideo /\ ~isSwiping /\ swipePointerId = Null
    /\ clickTimer = Null /\ timeouts = {} /\ tickPending = 0
    /\ overlay.symbol = "" /\ ~overlay.show
    /\ mediaTime = 0 /\ paused /\ mediaEvents = <<>>

\* the session is Idle
SessionIdle ==
    /\ ~isPointerDownOnVideo /\ ~isSwiping
    /\ swipePointerId = Null /\ swipeTargetEl = "none"

\* C21: when pointer capture is lost while Swiping the widget resets to
\* Idle and hides the continuous overlay, as a pointer-cancel does.
C21_CaptureLossResets ==
    [][ (LostPointerCapture /\ isSwiping) =>
            (SessionIdle' /\ ~overlay'.show) ]_vars

\* C22: a primary-button pointer-down on the video records the session
\* (PressedUnconfirmed, startX / startY, startMediaTime = the current media
\* position, pointer id) and leaves the click timer and every other
\* timer, the media and the overlay unchanged; a pointer-down with another
\* button changes no state.
C22_PointerDownRecordsSession ==
    [][ \A x \in DownXs, y \in DownYs, b \in Buttons, p \in PointerIds :
          handleVideoPointerDown(x, y, b, p) =>
             /\ mediaCalls' = <<>>
             /\ UNCHANGED <<mediaVars, timerVars, overlay, otherVars>>
             /\ IF b = 0 /\ videoEl
                THEN /\ isPointerDownOnVideo' /\ ~isSwiping'
                     /\ swipeStartX' = x /\ swipeStartY' = y
                     /\ swipeCurrentX' = x /\ swipeCurrentY' = y
                     /\ swipeStartTime' = mediaTime
                     /\ swipePointerId' = p
                     /\ lastPointerX' = x
                ELSE UNCHANGED gestureVars
      ]_vars

\* C22 witness: a press was recorded at a media position other than 0
\* while a tap was pending and an overlay was on screen
C22_Witness ==
    /\ isPointerDownOnVideo /\ ~isSwiping
    /\ swipeCurrentX = swipeStartX /\ swipeCurrentY = swipeStartY
    /\ swipeStartTime = mediaTime /\ mediaTime > 0
    /\ clickTimer # Null /\ PendingOf("click") # {}
    /\ overlay.show /\ PendingOf("overlayHide") # {}

\* the operations that reach for the media element: togglePlay and seekBy
\* (through the keyboard), the video's pointer handlers, the seek bar's
\* handlers, bookmark add and bookmark seek
NoMediaOperation ==
    \/ \E k \in {" ", "ArrowLeft", "ArrowRight"} : handleKeydown(k, FALSE)
    \/ VideoPointerDown
    \/ PlayingPointerMove
    \/ WindowPointerUp
    \/ SeekBarInput
    \/ SeekPointerDown
    \/ SeekPointerUp
    \/ addBookmark
    \/ SeekToBookmark

\* C23: While no media element is bound, togglePlay, seekBy, pointer-down,
\* -move and -up on the video, seek-bar input, pointer-down and pointer-up,
\* bookmark add and bookmark seek make no call on the media element (the
\* only way they could raise an error), schedule and cancel no timer or
\* animation frame, and leave the media, the gesture state, the overlay and
\* the bookmarks as they were.
C23_NoMediaNoEffect ==
    [][ (~videoEl /\ NoMediaOperation) =>
            /\ mediaCalls' = <<>>
            /\ UNCHANGED <<mediaVars, gestureVars, timerVars, overlay,
                           bookmarks, isPlaying, wasPlayingBeforeSeeking>>
      ]_vars

\* a seek-bar press has been handled before the <video> was bound, around
\* playing media, and nothing shows it
C23_Witness ==
    /\ ~videoEl /\ ~destroyed /\ seekDrag
    /\ ~paused /\ mediaTime = Sec(2) /\ mediaDuration = NonFinite
    /\ mediaEvents = <<>> /\ ~wasPlayingBeforeSeeking
    /\ ~isPointerDownOnVideo /\ clickTimer = Null /\ seekRafId = Null
    /\ timeouts = {} /\ frames = {} /\ tickPending = 0
    /\ ~overlay.show /\ bookmarks = <<>>

\* C24: a skip by ArrowLeft / ArrowRight or by a double tap at the left / right
\* makes one write of the position, min(max(0, position -/+ SEEK_AMOUNT),
\* duration), with no upper bound when the duration is not finite; the
\* position is in [0, duration] after every step.
C24_SkipsClamped ==
    [][ LET clamped(t) == IF mediaDuration = NonFinite
                          THEN (IF t < 0 THEN 0 ELSE t)
                          ELSE IF t < 0 THEN 0
                          ELSE IF t > mediaDuration THEN mediaDuration
                          ELSE t
            back == clamped(mediaTime - SEEK_AMOUNT * TimeScale)
            forth == clamped(mediaTime + SEEK_AMOUNT * TimeScale)
            offsetX == lastPointerX - rect.left
        IN  /\ (handleKeydown("ArrowLeft", FALSE) /\ videoEl) =>
                  /\ mediaCalls' = <<Call("currentTime", back)>>
                  /\ mediaTime' = back
            /\ (handleKeydown("ArrowRight", FALSE) /\ videoEl) =>
                  /\ mediaCalls' = <<Call("currentTime", forth)>>
                  /\ mediaTime' = forth
            /\ (SecondTapUp /\ 3 * offsetX < rect.width) =>
                  /\ mediaCalls' = <<Call("currentTime", back)>>
                  /\ mediaTime' = back
            /\ (SecondTapUp /\ 3 * offsetX > 2 * rect.width) =>
                  /\ mediaCalls' = <<Call("currentTime", forth)>>
                  /\ mediaTime' = forth
            /\ mediaTime' >= 0
            /\ mediaDuration' # NonFinite => mediaTime' <= mediaDuration'
      ]_vars

\* three forward skips on media of unknown duration went past any bound a
\* known duration would have set, after a backward skip had stopped at 0
C24_Witness ==
    /\ mediaDuration = NonFinite
    /\ mediaTime = Sec(3 * SEEK_AMOUNT)
    /\ mediaCalls = <<Call("currentTime", Sec(3 * SEEK_AMOUNT))>>

\* C25: for every distance dx of up to MaxDistance pixels either way,
\* calculateSwipeOffset(dx) is sign(dx) * (SWIPE_BASE_SENSITIVITY * |dx| +
\* SWIPE_ACCELERATION * |dx|^2); it is odd, 0 at 0, strictly increasing, and
\* 3.0 seconds at dx = 100; and the position a swipe has written is the
\* anchor plus that offset, clamped.
C25_SwipeOffsetFormula ==
    LET formula(dx) ==
            LET a == IF dx < 0 THEN -dx ELSE dx
                sgn == IF dx > 0 THEN 1 ELSE IF dx < 0 THEN -1 ELSE 0
            IN  sgn * (SWIPE_BASE_SENSITIVITY * a + SWIPE_ACCELERATION * a * a)
        target == swipeStartTime + formula(swipeCurrentX - swipeStartX)
    IN  /\ \A dx \in -MaxDistance .. MaxDistance :
              /\ calculateSwipeOffset(dx) = formula(dx)
              /\ calculateSwipeOffset(-dx) = -calculateSwipeOffset(dx)
              /\ dx < MaxDistance =>
                    calculateSwipeOffset(dx) < calculateSwipeOffset(dx + 1)
        /\ calculateSwipeOffset(0) = 0
        /\ calculateSwipeOffset(100) = 3 * TimeScale
        /\ isSwiping =>
              mediaTime = IF target < 0 THEN 0
                          ELSE IF mediaDuration # NonFinite
                                  /\ target > mediaDuration
                          THEN mediaDuration
                          ELSE target

\* a swipe of 100 pixels to the right from position 0 wrote 3.0 seconds
C25_Witness ==
    /\ isSwiping
    /\ swipeCurrentX - swipeStartX = 100
    /\ swipeStartTime = 0
    /\ mediaTime = 3 * TimeScale
    /\ mediaCalls = <<Call("currentTime", 3 * TimeScale)>>

\* C26: right after a pointer-up that the window receives while a pointer is
\* down on the video or a swipe is on, and right after any pointer-cancel the
\* video receives, the session is Idle: no pointer down on the video, not
\* swiping, no stored pointer id, no stored capture target.
C26_SessionEndsIdle ==
    [][ /\ (WindowPointerUp /\ (isPointerDownOnVideo \/ isSwiping)) =>
              /\ ~isPointerDownOnVideo' /\ ~isSwiping'
              /\ swipePointerId' = Null /\ swipeTargetEl' = "none"
        /\ VideoPointerCancel =>
              /\ ~isPointerDownOnVideo' /\ ~isSwiping'
              /\ swipePointerId' = Null /\ swipeTargetEl' = "none"
      ]_vars

\* a swipe of 100 pixels has ended and left an idle session behind
C26_Witness ==
    /\ videoEl
    /\ ~isPointerDownOnVideo /\ ~isSwiping
    /\ swipePointerId = Null /\ swipeTargetEl = "none"
    /\ swipeCurrentX - swipeStartX = 100
    /\ mediaTime = swipeStartTime + 3 * TimeScale
    /\ ~overlay.show /\ pointerCapture = Null

\* C27: from a pointer-down on the seek bar until the pointer-up that ends
\* that drag, the media is paused in every state.
C27_PausedDuringSeekDrag ==
    (videoEl /\ seekDrag) => paused

\* C28: a key-down whose target is an input, a textarea or content-editable
\* changes nothing.  Otherwise space makes exactly one play() or pause() call
\* (play on paused media), ArrowLeft and ArrowRight make exactly one write of
\* the position moved by -SEEK_AMOUNT / +SEEK_AMOUNT and clamped, '?' flips
\* showHelp, and any other key changes nothing.  No key-down changes the
\* pointer session, the click timer, any other timer or the overlay.
C28_KeyboardHandling ==
    [][ \A k \in Keys, e \in BOOLEAN :
          handleKeydown(k, e) =>
            LET clamped(t) == IF t < 0 THEN 0
                              ELSE IF mediaDuration # NonFinite
                                      /\ t > mediaDuration
                              THEN mediaDuration
                              ELSE t
                back == clamped(mediaTime - SEEK_AMOUNT * TimeScale)
                forth == clamped(mediaTime + SEEK_AMOUNT * TimeScale)
            IN  /\ UNCHANGED <<gestureVars, timerVars, overlay, bookmarks,
                               isPlaying, wasPlayingBeforeSeeking, videoEl>>
                /\ (e \/ k \notin {" ", "ArrowLeft", "ArrowRight", "?"}) =>
                      /\ mediaCalls' = <<>>
                      /\ UNCHANGED <<mediaVars, showHelp>>
                /\ (~e /\ k = " " /\ videoEl) =>
                      /\ mediaCalls' =
                            <<Call(IF paused THEN "play" ELSE "pause", 0)>>
                      /\ paused' = ~paused
                      /\ UNCHANGED <<mediaTime, showHelp>>
                /\ (~e /\ k = "ArrowLeft" /\ videoEl) =>
                      /\ mediaCalls' = <<Call("currentTime", back)>>
                      /\ mediaTime' = back
                      /\ UNCHANGED <<paused, mediaEvents, showHelp>>
                /\ (~e /\ k = "ArrowRight" /\ videoEl) =>
                      /\ mediaCalls' = <<Call("currentTime", forth)>>
                      /\ mediaTime' = forth
                      /\ UNCHANGED <<paused, mediaEvents, showHelp>>
                /\ (~e /\ k = "?") =>
                      /\ showHelp' = ~showHelp
                      /\ mediaCalls' = <<>>
                      /\ UNCHANGED mediaVars
      ]_vars

\* ArrowRight was pressed while a second tap was down on the video, the
\* first tap's click timer pending and the help open
C28_Witness ==
    /\ showHelp
    /\ isPointerDownOnVideo /\ clickTimer # Null
    /\ PendingOf("click") # {}
    /\ mediaTime = SEEK_AMOUNT * TimeScale
    /\ mediaCalls = <<Call("currentTime", SEEK_AMOUNT * TimeScale)>>

\* C29: when the click timer fires, the toggle comes first and the symbol is
\* chosen from the state it leaves: on paused media play() is called and the
\* overlay is set up with the play glyph, on playing media pause() is called
\* and the overlay is set up with the pause glyph, each time at the center
\* with fade enabled; the continuation shows the overlay as it was set up.
C29_TapGlyphAfterToggle ==
    [][ /\ (ClickTimerFire /\ videoEl /\ paused) =>
              /\ mediaCalls' = <<Call("play", 0)>>
              /\ overlay'.symbol = "▶"
              /\ overlay'.side = "center" /\ overlay'.fade
        /\ (ClickTimerFire /\ videoEl /\ ~paused) =>
              /\ mediaCalls' = <<Call("pause", 0)>>
              /\ overlay'.symbol = "⏸"
              /\ overlay'.side = "center" /\ overlay'.fade
        /\ (TickResume /\ drain) =>
              overlay' = [overlay EXCEPT !.show = TRUE]
      ]_vars

\* a tap has paused playing media and the pause glyph is on screen
C29_Witness ==
    /\ paused
    /\ mediaCalls = <<>>
    /\ overlay = [show |-> TRUE, symbol |-> "⏸", side |-> "center",
                  fade |-> TRUE]
    /\ PendingOf("overlayHide") # {}
    /\ clickTimer = Null

\* C30: whenever the session is not Swiping, no overlay-hide timer is pending
\* and no discrete show awaits its tick, the overlay is hidden.
C30_NoOverlayLeftBehind ==
    (~isSwiping /\ PendingOf("overlayHide") = {} /\ tickPending = 0)
        => ~overlay.show

\* C31: a pointer-up that reaches the window while no pointer is down on the
\* video and no swipe is on changes no gesture state, no timer and nothing of
\* the overlay; released anywhere but on the seek bar it makes no media call
\* at all, released on the seek bar it makes no call but the resuming play().
C31_IdlePointerUpIsNoop ==
    [][ /\ (WindowPointerUp /\ ~isPointerDownOnVideo /\ ~isSwiping) =>
              /\ mediaCalls' = <<>>
              /\ UNCHANGED <<mediaVars, gestureVars, timerVars, overlay>>
        /\ (SeekPointerUp /\ ~isPointerDownOnVideo /\ ~isSwiping) =>
              /\ mediaCalls' \in {<<>>, <<Call("play", 0)>>}
              /\ mediaCalls' # <<>> => wasPlayingBeforeSeeking
              /\ UNCHANGED <<mediaTime, gestureVars, timerVars, overlay>>
      ]_vars

\* a seek-bar drag that began while playing has been released on the bar:
\* playback resumed, the click arbiter and the overlay were left alone
C31_Witness ==
    /\ videoEl /\ ~seekDrag /\ wasPlayingBeforeSeeking
    /\ ~paused /\ mediaCalls = <<Call("play", 0)>>
    /\ ~isPointerDownOnVideo /\ ~isSwiping
    /\ clickTimer = Null /\ timeouts = {} /\ ~overlay.show

\* C32: a pointer-up on the seek bar that no seek-bar pointer-down has
\* preceded since the last seek-bar pointer-up never calls play().
C32_ResumeOnlyEndsADrag ==
    [][ (SeekPointerUp /\ ~seekDrag) =>
            \A i \in 1 .. Len(mediaCalls') : mediaCalls'[i].op # "play"
      ]_vars

\* C33: at the pointer-up of a second tap, lastPointerX is the x of that
\* tap's own pointer-down, and its offset in the video's box alone decides
\* the outcome: below a third of the width one backward skip, above two
\* thirds one forward skip, in between no call and no overlay change,
\* wherever the pointer has moved to since and wherever the first tap was.
C33_DirectionFromSecondDown ==
    [][ SecondTapUp =>
            LET offsetX == swipeStartX - rect.left
                back == IF mediaTime < SEEK_AMOUNT * TimeScale THEN 0
                        ELSE mediaTime - SEEK_AMOUNT * TimeScale
                forth == IF mediaDuration # NonFinite
                            /\ mediaTime + SEEK_AMOUNT * TimeScale
                                  > mediaDuration
                         THEN mediaDuration
                         ELSE mediaTime + SEEK_AMOUNT * TimeScale
            IN  /\ lastPointerX = swipeStartX
                /\ 3 * offsetX < rect.width =>
                      /\ mediaCalls' = <<Call("currentTime", back)>>
                      /\ overlay'.symbol = "⏮" /\ overlay'.side = "left"
                /\ 3 * offsetX > 2 * rect.width =>
                      /\ mediaCalls' = <<Call("currentTime", forth)>>
                      /\ overlay'.symbol = "⏭" /\ overlay'.side = "right"
                /\ (rect.width <= 3 * offsetX
                      /\ 3 * offsetX <= 2 * rect.width) =>
                      /\ mediaCalls' = <<>>
                      /\ UNCHANGED <<mediaTime, overlay>>
      ]_vars

\* a second tap pressed in the left zone and released in the middle zone
\* skipped backward
C33_Witness ==
    /\ ~isPointerDownOnVideo /\ clickTimer = Null
    /\ 3 * (lastPointerX - rect.left) < rect.width
    /\ rect.width <= 3 * (swipeCurrentX - rect.left)
    /\ 3 * (swipeCurrentX - rect.left) <= 2 * rect.width
    /\ overlay.symbol = "⏮" /\ overlay.side = "left"
    /\ Len(mediaCalls) = 1 /\ mediaCalls[1].op = "currentTime"

\* C34: in a run of k quick taps, floor(k / 2) of the pointer-ups cancelled a
\* pending click timer (double taps); after an even number of taps no click
\* timer is pending, after an odd number exactly one is, until it fires; the
\* click timer's callback makes at most one play() / pause() call in the
\* whole run, and only after an odd number of taps.
C34_DoubleTapConsumesTap ==
    /\ tapLog.doubles = tapLog.taps \div 2
    /\ tapLog.toggles <= 1
    /\ tapLog.toggles = 1 => tapLog.taps % 2 = 1
    /\ (tapLog.taps % 2 = 0 \/ tapLog.toggles = 1) =>
          (clickTimer = Null /\ PendingOf("click") = {})
    /\ (tapLog.taps % 2 = 1 /\ tapLog.toggles = 0) =>
          /\ clickTimer # Null
          /\ Cardinality(PendingOf("click")) = 1

\* a double tap and a third tap, whose click timer then fired and started
\* playback
C34_Witness ==
    /\ tapLog.taps = 3 /\ tapLog.doubles = 1 /\ tapLog.toggles = 1
    /\ ~paused /\ mediaCalls = <<Call("play", 0)>>
    /\ clickTimer = Null

\* C35: a pointer-move during a swipe on paused media leaves swipeStartX and
\* swipeStartTime as the pointer-down set them and keeps the swipe on,
\* however small |dx| has become; it writes the anchor plus the offset of
\* the current dx, clamped, whatever was written before, so a move back to
\* swipeStartX writes the clamped anchor again.
C35_ScrubAnchored ==
    [][ (SwipePointerMove /\ videoEl /\ isSwiping /\ paused) =>
            LET dx == swipeCurrentX' - swipeStartX
                a == IF dx < 0 THEN -dx ELSE dx
                offset == (IF dx < 0 THEN -1 ELSE 1)
                            * (SWIPE_BASE_SENSITIVITY * a
                                 + SWIPE_ACCELERATION * a * a)
                target == swipeStartTime + offset
                written == IF target < 0 THEN 0
                           ELSE IF mediaDuration # NonFinite
                                   /\ target > mediaDuration
                           THEN mediaDuration
                           ELSE target
            IN  /\ isSwiping'
                /\ UNCHANGED <<swipeStartX, swipeStartY, swipeStartTime>>
                /\ mediaCalls' = <<Call("currentTime", written)>>
                /\ mediaTime' = written
                /\ dx = 0 => mediaTime' = swipeStartTime
      ]_vars

\* a swipe that went 200 pixels to the right and is back where the press
\* began: still a swipe, and the position is the anchor again
C35_Witness ==
    /\ isSwiping /\ paused
    /\ swipeCurrentX = swipeStartX
    /\ swipeStartTime = Sec(2)
    /\ mediaTime = Sec(2)
    /\ mediaCalls = <<Call("currentTime", Sec(2))>>
    /\ overlay.show /\ overlay.symbol = "0.0s"

\* C36: after every step the bookmarks are in non-decreasing order of time;
\* an add inserts one entry that carries the media position of that moment
\* and keeps the others; a delete of index i removes exactly the entry at i;
\* loading a valid file empties the list, an invalid one leaves it.
C36_BookmarksSorted ==
    [][ /\ \A j \in 1 .. Len(bookmarks') - 1 :
              bookmarks'[j].time <= bookmarks'[j + 1].time
        /\ (addBookmark /\ videoEl) =>
              \E k \in 1 .. Len(bookmarks') :
                  /\ bookmarks'[k].time = mediaTime
                  /\ SubSeq(bookmarks', 1, k - 1)
                        \o SubSeq(bookmarks', k + 1, Len(bookmarks'))
                        = bookmarks
        /\ \A i \in 0 .. Len(bookmarks) - 1 :
              deleteBookmark(i) =>
                  /\ Len(bookmarks') = Len(bookmarks) - 1
                  /\ \A j \in 1 .. Len(bookmarks') :
                        bookmarks'[j] = bookmarks[IF j <= i THEN j ELSE j + 1]
        /\ loadFile(TRUE) => bookmarks' = <<>>
        /\ loadFile(FALSE) => bookmarks' = bookmarks
      ]_vars

\* three bookmarks added out of order stand in order of time
C36_Witness ==
    /\ Len(bookmarks) = 3
    /\ bookmarks[1].time = 0
    /\ bookmarks[2].time = Sec(5)
    /\ bookmarks[3].time = Sec(10)
    /\ mediaTime = 0

\* C37: timer handles mirror pending callbacks.  In every reachable state
\* clickTimer is non-null exactly when a click timeout is pending, and then
\* it is the handle of the only pending click timeout; seekRafId is non-null
\* exactly when a seek animation-frame callback is pending, and then it is
\* the handle of the only pending frame.
C37_HandlesMirrorPending ==
    /\ (clickTimer # Null) <=> ({t \in timeouts : t.kind = "click"} # {})
    /\ \A t \in timeouts : t.kind = "click" => t.id = clickTimer
    /\ (seekRafId # Null) <=> (frames # {})
    /\ \A f \in frames : f.id = seekRafId

\* a click timeout and a seek frame are both pending, the frame being the
\* replacement of one that a later input cancelled
C37_Witness ==
    /\ clickTimer # Null
    /\ Cardinality({t \in timeouts : t.kind = "click"}) = 1
    /\ seekRafId # Null
    /\ Cardinality(frames) = 1
    /\ seekRafId # SetMin(FrameIds)

\* C38: session flags are consistent.  In every reachable state isSwiping
\* implies that a pointer is recorded as down on the video, with a stored
\* pointer id and a stored capture target; and any step that turns isSwiping
\* on ends with clickTimer null and no click timeout pending.
C38_SessionFlagsConsistent ==
    /\ [](isSwiping =>
             /\ isPointerDownOnVideo
             /\ swipePointerId # Null
             /\ swipeTargetEl # "none")
    /\ [][ (~isSwiping /\ isSwiping') =>
              /\ clickTimer' = Null
              /\ {t \in timeouts' : t.kind = "click"} = {}
         ]_vars

\* a tap left its click timer pending; the next press moved far enough to
\* enter Swiping, which cancelled that timer before it could fire
C38_Witness ==
    /\ isSwiping /\ isPointerDownOnVideo
    /\ swipePointerId # Null /\ pointerCapture = swipePointerId
    /\ tapLog.taps = 1 /\ tapLog.swipes = 1
    /\ tapLog.doubles = 0 /\ tapLog.toggles = 0
    /\ clickTimer = Null

====
